---- MODULE Spec2Model ----
(***************************************************************************)
(* Verification model of the piano fingering planner                       *)
(* (src/src/midi_handler/notes_to_fingering.py) and of the live MIDI       *)
(* capture channel (src/src/record/midi_record_intime_v2.py, api.py).      *)
(*                                                                         *)
(* A note name is the string letter+accidental+octave of the source; it is *)
(* kept as the record [l, a, o] of its three parts.  Times are integers in *)
(* hundredths of a second (0.25 s = 25).                                   *)
(***************************************************************************)
EXTENDS Integers, Sequences, FiniteSets, TLC

\* ------------------------------------------------------------------ bounds
\* longest note list handed to the planner
MaxNotes == 3
\* MIDI messages the keyboard sends during one capture session
MaxMsgs == 4
\* executor threads that can sit in get_message at the same time
MaxGetters == 2
\* capacity of the event queue in the model; the recorder is built with
\* queue.Queue(maxsize=100), whose put() blocks in the same way when full
QueueMaxsize == 2
\* lines each SSE stream of perform_music delivers
MaxLines == 2
\* messages in the one track of a MIDI file the CLI reads
MaxTrackMsgs == 2
\* tracks of a file read by midi_to_notes, and messages in the whole file
MaxTracks == 2
MaxFileMsgs == 3

\* ------------------------------------------------------- program constants
\* float('inf') of the DP table
INF == 1000000000
\* the short-note threshold, 0.25 s
SHORT_NOTE == 25
\* highest arm position; the DP lists have max_arm_position + 1 cells
max_arm_position == 52
\* default duration (0.5 s) and velocity when no timing is given
DEFAULT_DURATION == 50
DEFAULT_VELOCITY == 64
\* split_point of the recorder
split_point == 60

Abs(x) == IF x < 0 THEN -x ELSE x

Note(l, a, o) == [l |-> l, a |-> a, o |-> o]

\* ---------------------------------------------------------------- helpers
\* note.upper() followed by the chain of replace() calls
NormalizeNote(note) ==
    IF note.l = "B" /\ note.a = "#" THEN Note("C", "", note.o)
    ELSE IF note.l = "E" /\ note.a = "#" THEN Note("F", "", note.o)
    ELSE IF note.l = "C" /\ note.a = "b" THEN Note("B", "", note.o)
    ELSE IF note.l = "F" /\ note.a = "b" THEN Note("E", "", note.o)
    ELSE IF note.l = "D" /\ note.a = "b" THEN Note("C", "#", note.o)
    ELSE IF note.l = "E" /\ note.a = "b" THEN Note("D", "#", note.o)
    ELSE IF note.l = "G" /\ note.a = "b" THEN Note("F", "#", note.o)
    ELSE IF note.l = "A" /\ note.a = "b" THEN Note("G", "#", note.o)
    ELSE IF note.l = "B" /\ note.a = "b" THEN Note("A", "#", note.o)
    ELSE note

\* white-key index 1..52 of a note, -1 when it has none
note_to_white_key_index(note) ==
    LET n == NormalizeNote(note)
        white_key_index ==
            IF n.l = "C" THEN (n.o - 1) * 7 + 3
            ELSE IF n.l = "D" THEN (n.o - 1) * 7 + 4
            ELSE IF n.l = "E" THEN (n.o - 1) * 7 + 5
            ELSE IF n.l = "F" THEN (n.o - 1) * 7 + 6
            ELSE IF n.l = "G" THEN (n.o - 1) * 7 + 7
            ELSE IF n.l = "A" THEN n.o * 7 + 1
            ELSE n.o * 7 + 2
    IN  IF n.o = 0
        THEN (IF n.l = "A" THEN 1 ELSE IF n.l = "B" THEN 2 ELSE -1)
        ELSE IF 1 <= white_key_index /\ white_key_index <= 52
             THEN white_key_index ELSE -1

\* '#' in note or 'b' in note
is_black_key(note) == note.a # ""

\* fixed finger of a black key, -1 when there is no rule.  The pattern is
\* matched against note.upper(), so a flat ("B" after upper()) never matches.
get_black_key_finger(note, hand_type) ==
    IF note.a # "#" THEN -1
    ELSE IF hand_type = "left" THEN
        IF note.l = "A" /\ note.o = 0 THEN 4
        ELSE IF note.l = "C" /\ 1 <= note.o /\ note.o <= 3 THEN 3
        ELSE IF note.l = "G" /\ 1 <= note.o /\ note.o <= 3 THEN 3
        ELSE IF note.l = "D" /\ 1 <= note.o /\ note.o <= 3 THEN 2
        ELSE IF note.l = "A" /\ 1 <= note.o /\ note.o <= 3 THEN 2
        ELSE IF note.l = "F" /\ 1 <= note.o /\ note.o <= 3 THEN 4
        ELSE -1
    ELSE IF hand_type = "right" THEN
        IF note.o < 4 THEN -1
        ELSE IF note.l = "C" THEN 2
        ELSE IF note.l = "F" THEN 2
        ELSE IF note.l = "D" THEN 3
        ELSE IF note.l = "G" THEN 3
        ELSE IF note.l = "A" THEN 4
        ELSE -1
    ELSE -1

\* 1 for C#/D#, 2 for F#/G#/A#, -1 otherwise; matched against note.upper()
get_black_key_region(note) ==
    IF ~is_black_key(note) THEN -1
    ELSE IF note.a # "#" THEN -1
    ELSE IF note.l \in {"C", "D"} THEN 1
    ELSE IF note.l \in {"F", "G", "A"} THEN 2
    ELSE -1

\* ------------------------------------------------ merge_hand_fingering
\* note_offsets of note_to_midi_number
note_offsets(l) ==
    IF l = "C" THEN 0 ELSE IF l = "D" THEN 2 ELSE IF l = "E" THEN 4
    ELSE IF l = "F" THEN 5 ELSE IF l = "G" THEN 7 ELSE IF l = "A" THEN 9
    ELSE 11

\* the numbering in which C4 = 48, one octave below the MIDI numbering
note_to_midi_number_c0(note_name) ==
    note_name.o * 12 + note_offsets(note_name.l)
        + (IF note_name.a = "#" THEN 1 ELSE IF note_name.a = "b" THEN -1 ELSE 0)

\* MIDI number of a note name: a sharp adds 1, a flat subtracts 1, C4 = 60
note_to_midi_number(note_name) ==
    LET offset == IF note_name.a = "#" THEN note_offsets(note_name.l) + 1
                  ELSE IF note_name.a = "b" THEN note_offsets(note_name.l) - 1
                  ELSE note_offsets(note_name.l)
    IN  (note_name.o + 1) * 12 + offset

\* get_note_name of midi_to_musical_notation: the note name of a MIDI number
midi_get_note_name(note_number) ==
    LET notes == << <<"C", "">>, <<"C", "#">>, <<"D", "">>, <<"D", "#">>,
                     <<"E", "">>, <<"F", "">>, <<"F", "#">>, <<"G", "">>,
                     <<"G", "#">>, <<"A", "">>, <<"A", "#">>, <<"B", "">> >>
        note == notes[(note_number % 12) + 1]
    IN  Note(note[1], note[2], (note_number \div 12) - 1)

\* the note one octave up, the octave number capped at 8
transpose_note_up_octave(note_name) ==
    LET new_octave == note_name.o + 1
    IN  Note(note_name.l, note_name.a, IF new_octave > 8 THEN 8 ELSE new_octave)

\* the raising loop of transpose_note_to_range: <<current_midi, octave,
\* octaves_up>> after it, with at most `limit` octaves
RECURSIVE RaiseToLow(_, _, _, _, _)
RaiseToLow(current_midi, octave, octaves_up, target_low_midi, limit) ==
    IF current_midi >= target_low_midi THEN <<current_midi, octave, octaves_up>>
    ELSE IF octaves_up + 1 >= limit
         THEN <<current_midi + 12, octave + 1, octaves_up + 1>>
         ELSE RaiseToLow(current_midi + 12, octave + 1, octaves_up + 1,
                         target_low_midi, limit)

\* the lowering loop that follows when the raised note is above the range
RECURSIVE LowerToHigh(_, _, _, _)
LowerToHigh(current_midi, octave, octaves_up, target_high_midi) ==
    IF current_midi > target_high_midi /\ octave > 0
    THEN LowerToHigh(current_midi - 12, octave - 1, octaves_up - 1,
                     target_high_midi)
    ELSE <<current_midi, octave, octaves_up>>

\* transpose_note_to_range with a safety limit of two octaves
transpose_note_to_range_limit2(note_name, target_low_midi, target_high_midi) ==
    LET current_midi == note_to_midi_number(note_name)
        up == RaiseToLow(current_midi, note_name.o, 0, target_low_midi, 2)
        down == LowerToHigh(up[1], up[2], up[3], target_high_midi)
        octave == IF down[2] < 0 THEN 0 ELSE IF down[2] > 8 THEN 8 ELSE down[2]
    IN  IF target_low_midi <= current_midi /\ current_midi <= target_high_midi
        THEN <<note_name, 0>>
        ELSE <<Note(note_name.l, note_name.a, octave), down[3]>>

\* <<transposed note, octaves raised>>: whole octaves up until the note is
\* at or above target_low_midi (at most 4), back down while above the range
transpose_note_to_range(note_name, target_low_midi, target_high_midi) ==
    LET current_midi == note_to_midi_number(note_name)
        up == RaiseToLow(current_midi, note_name.o, 0, target_low_midi, 4)
        down == LowerToHigh(up[1], up[2], up[3], target_high_midi)
        octave == IF down[2] < 0 THEN 0 ELSE IF down[2] > 8 THEN 8 ELSE down[2]
    IN  IF target_low_midi <= current_midi /\ current_midi <= target_high_midi
        THEN <<note_name, 0>>
        ELSE <<Note(note_name.l, note_name.a, octave), down[3]>>

\* one pass of the note loop of process_midi_to_fingering:
\* [kept, note_name], kept FALSE when the low-note filter removed the note
PreprocessNote(note_name, transpose_octave, filter_low_notes, transpose_low_to_range) ==
    LET threshold_midi == IF filter_low_notes
                          THEN note_to_midi_number(Note("B", "", 2)) ELSE 0
        raised == IF transpose_low_to_range /\ note_to_midi_number(note_name) <= 47
                  THEN transpose_note_to_range(note_name, 48, 59)[1]
                  ELSE note_name
    IN  IF filter_low_notes /\ note_to_midi_number(note_name) <= threshold_midi
        THEN [kept |-> FALSE, note_name |-> note_name]
        ELSE [kept |-> TRUE,
              note_name |-> IF transpose_octave
                            THEN transpose_note_up_octave(raised) ELSE raised]

\* ------------------------------------------- find_arm_positions_optimized
\* the hardware range test of the filtering loop
\* no range test at all, as in the two-hand mode
InHandRangeUnlimited(white_key_idx, hand_type) == TRUE

InHandRange(white_key_idx, hand_type) ==
    IF hand_type = "left" THEN 1 <= white_key_idx /\ white_key_idx <= 23
    ELSE IF hand_type = "right" THEN 24 <= white_key_idx /\ white_key_idx <= 52
    ELSE TRUE

\* input indices (1-based) of the notes appended to valid_notes, in loop order
RECURSIVE ValidIndices(_, _, _)
ValidIndices(notes_list, hand_type, i) ==
    IF i > Len(notes_list) THEN <<>>
    ELSE LET white_key_idx == note_to_white_key_index(notes_list[i])
             keep == white_key_idx # -1 /\ InHandRange(white_key_idx, hand_type)
         IN  (IF keep THEN <<i>> ELSE <<>>)
                 \o ValidIndices(notes_list, hand_type, i + 1)

\* input indices of the notes appended to filtered_notes: a note with no
\* white-key index (-1) is dropped without being recorded
RECURSIVE FilteredIndices(_, _, _)
FilteredIndices(notes_list, hand_type, i) ==
    IF i > Len(notes_list) THEN <<>>
    ELSE LET white_key_idx == note_to_white_key_index(notes_list[i])
             rec == white_key_idx # -1 /\ ~InHandRange(white_key_idx, hand_type)
         IN  (IF rec THEN <<i>> ELSE <<>>)
                 \o FilteredIndices(notes_list, hand_type, i + 1)

\* valid_timing: the timing of each kept note, or the defaults when the
\* caller gave none (an empty list is falsy)
ValidTiming(note_timing, valid) ==
    IF note_timing # <<>>
    THEN [k \in 1..Len(valid) |-> note_timing[valid[k]]]
    ELSE [k \in 1..Len(valid) |->
             [start_time |-> (k - 1) * DEFAULT_DURATION,
              duration   |-> DEFAULT_DURATION,
              velocity   |-> DEFAULT_VELOCITY]]

\* the windows with the right hand as narrow as the left one (no sixth key)
ArmPositionRangeFiveKeys(white_key_idx, hand_type) ==
    LET lo == IF white_key_idx - 4 > 1 THEN white_key_idx - 4 ELSE 1
        hi == IF white_key_idx < 52 THEN white_key_idx ELSE 52
    IN  IF hand_type = "right" /\ white_key_idx = 24 THEN <<24, 24>>
        ELSE IF hand_type = "right" /\ white_key_idx = 51 THEN <<46, 47>>
        ELSE IF hand_type = "right" /\ white_key_idx = 52 THEN <<47, 48>>
        ELSE IF hand_type = "left" /\ white_key_idx = 23 THEN <<19, 19>>
        ELSE IF hand_type = "left" /\ white_key_idx = 1 THEN <<1, 1>>
        ELSE IF hand_type = "left" /\ white_key_idx = 2 THEN <<2, 2>>
        ELSE <<lo, hi>>

\* admissible arm positions <<min_pos, max_pos>> of one note
ArmPositionRange(white_key_idx, hand_type) ==
    LET lo == IF hand_type = "left"
              THEN (IF white_key_idx - 4 > 1 THEN white_key_idx - 4 ELSE 1)
              ELSE (IF white_key_idx - 5 > 1 THEN white_key_idx - 5 ELSE 1)
        hi == IF white_key_idx < max_arm_position
              THEN white_key_idx ELSE max_arm_position
    IN  IF hand_type = "right" /\ white_key_idx = 24 THEN <<24, 24>>
        ELSE IF hand_type = "right" /\ white_key_idx = 51 THEN <<46, 47>>
        ELSE IF hand_type = "right" /\ white_key_idx = 52 THEN <<47, 48>>
        ELSE IF hand_type = "left" /\ white_key_idx = 23 THEN <<19, 19>>
        ELSE IF hand_type = "left" /\ white_key_idx = 1 THEN <<1, 1>>
        ELSE IF hand_type = "left" /\ white_key_idx = 2 THEN <<2, 2>>
        ELSE <<lo, hi>>

\* the short-note guard: a move (distance > 0) is skipped when the previous
\* note lasts no longer than 0.25 s
ShortNoteBlocks(distance, prev_note_duration) ==
    distance > 0 /\ prev_note_duration <= SHORT_NOTE

\* a cost that charges nothing for a move
TotalCostFreeMoves(prev_cost, distance, moves, move_penalty, distance_penalty) ==
    prev_cost

\* cost of reaching current_pos from prev_pos_val, given that cell's cost
\* and move count
TotalCost(prev_cost, distance, moves, move_penalty, distance_penalty) ==
    LET single_move_penalty ==
            IF distance > 0 THEN distance_penalty * distance * distance ELSE 0
    IN  prev_cost + distance + single_move_penalty + move_penalty * moves

\* one DP cell: scan of the previous note's positions in ascending order,
\* a candidate replaces the best one only when strictly cheaper
DpCell(prev_row, prev_range, current_pos, prev_note_duration, move_penalty, distance_penalty) ==
    LET RECURSIVE Scan(_, _)
        Scan(prev_pos_val, best) ==
            IF prev_pos_val > prev_range[2] THEN best
            ELSE LET c == prev_row[prev_pos_val]
                     distance == Abs(current_pos - prev_pos_val)
                     moves == c.moves + (IF current_pos # prev_pos_val THEN 1 ELSE 0)
                     total_cost == TotalCost(c.cost, distance, moves,
                                             move_penalty, distance_penalty)
                     skip == c.cost = INF
                             \/ ShortNoteBlocks(distance, prev_note_duration)
                 IN  Scan(prev_pos_val + 1,
                          IF ~skip /\ total_cost < best.cost
                          THEN [cost |-> total_cost, prev |-> prev_pos_val,
                                moves |-> moves]
                          ELSE best)
    IN  Scan(prev_range[1], [cost |-> INF, prev |-> -1, moves |-> 0])

\* the DP table: row i maps each position of note i's range to its
\* (dp, prev_pos, move_count) cell; cells outside the range keep (inf, -1, 0)
RECURSIVE DpRows(_, _, _, _, _)
DpRows(ranges, timing, i, move_penalty, distance_penalty) ==
    IF i = 1
    THEN << [pos \in ranges[1][1]..ranges[1][2] |->
                [cost |-> 0, prev |-> -1, moves |-> 0]] >>
    ELSE LET rows == DpRows(ranges, timing, i - 1, move_penalty, distance_penalty)
         IN  Append(rows,
                 [current_pos \in ranges[i][1]..ranges[i][2] |->
                     DpCell(rows[i - 1], ranges[i - 1], current_pos,
                            timing[i - 1].duration,
                            move_penalty, distance_penalty)])

\* the best final cell: ascending scan, strictly cheaper wins
BestFinal(row, range) ==
    LET RECURSIVE Scan(_, _)
        Scan(pos, best) ==
            IF pos > range[2] THEN best
            ELSE Scan(pos + 1,
                      IF row[pos].cost < best.min_cost
                      THEN [min_cost |-> row[pos].cost, best_final_pos |-> pos,
                            best_final_moves |-> row[pos].moves]
                      ELSE best)
    IN  Scan(range[1], [min_cost |-> INF, best_final_pos |-> -1,
                        best_final_moves |-> 0])

\* prev_pos[i][idx] of a list of max_arm_position + 1 cells: a negative idx
\* counts from the end of the list, cells outside the note's range hold -1
PrevPosAt(row, idx) ==
    LET j == IF idx < 0 THEN idx + max_arm_position + 1 ELSE idx
    IN  IF j \in DOMAIN row THEN row[j].prev ELSE -1

\* the backtracking loop, from the last note down to the first
RECURSIVE Backtrack(_, _, _)
Backtrack(rows, i, later) ==
    IF i = 0 THEN later
    ELSE Backtrack(rows, i - 1, <<PrevPosAt(rows[i + 1], later[1])>> \o later)

\* default logic of a right-hand black key that has no fixed rule
RuleLessRightFinger(finger_offset) ==
    IF finger_offset = 0 THEN <<5, FALSE>>
    ELSE IF finger_offset = 1 THEN <<5, TRUE>>
    ELSE IF finger_offset = 2 THEN <<4, FALSE>>
    ELSE IF finger_offset = 3 THEN <<3, FALSE>>
    ELSE IF finger_offset = 4 THEN <<2, FALSE>>
    ELSE IF finger_offset = 5 THEN <<1, FALSE>>
    ELSE <<5, FALSE>>

\* offset mapping of a right-hand white key
WhiteRightFinger(finger_offset) ==
    IF finger_offset = 0 THEN <<1, FALSE>>
    ELSE IF finger_offset = 1 THEN <<2, FALSE>>
    ELSE IF finger_offset = 2 THEN <<3, FALSE>>
    ELSE IF finger_offset = 3 THEN <<4, FALSE>>
    ELSE IF finger_offset = 4 THEN <<5, FALSE>>
    ELSE IF finger_offset = 5 THEN <<5, TRUE>>
    ELSE <<1, FALSE>>

\* offset mapping of the other hand types (white keys and rule-less black keys)
LeftFinger(finger_offset) ==
    IF finger_offset = 0 THEN <<5, FALSE>>
    ELSE IF finger_offset = 1 THEN <<4, FALSE>>
    ELSE IF finger_offset = 2 THEN <<3, FALSE>>
    ELSE IF finger_offset = 3 THEN <<2, FALSE>>
    ELSE IF finger_offset = 4 THEN <<1, FALSE>>
    ELSE <<5, FALSE>>

\* the assignment with the black-key rules left out: every key by its offset
FingerAssignmentByOffset(note, white_key_idx, arm_pos, hand_type) ==
    IF hand_type = "right" THEN WhiteRightFinger(white_key_idx - arm_pos)
    ELSE LeftFinger(white_key_idx - arm_pos)

\* <<finger, use_extended_pinky>> of one note
FingerAssignment(note, white_key_idx, arm_pos, hand_type) ==
    LET finger_offset == white_key_idx - arm_pos
        rule == get_black_key_finger(note, hand_type)
    IN  IF is_black_key(note)
        THEN IF rule = -1
             THEN (IF hand_type = "right" THEN RuleLessRightFinger(finger_offset)
                   ELSE LeftFinger(finger_offset))
             ELSE <<rule, rule = 5 /\ hand_type = "right" /\ finger_offset = 5>>
        ELSE IF hand_type = "right" THEN WhiteRightFinger(finger_offset)
             ELSE LeftFinger(finger_offset)

\* one PlannedNote (result_data)
ResultData(note, white_key_idx, arm_pos, t, hand_type) ==
    LET fa == FingerAssignment(note, white_key_idx, arm_pos, hand_type)
    IN  [note |-> note,
         white_key_index |-> white_key_idx,
         arm_position |-> arm_pos,
         finger |-> fa[1],
         pinky_key_type |-> IF fa[1] = 5 /\ fa[2] THEN "extended" ELSE "normal",
         start_time |-> t.start_time,
         duration |-> t.duration,
         end_time |-> t.start_time + t.duration,
         velocity |-> t.velocity,
         hand |-> hand_type,
         is_black_key |-> is_black_key(note),
         black_key_region |-> IF is_black_key(note)
                              THEN get_black_key_region(note) ELSE 0]

\* the value returned: (output, min_cost, best_final_moves)
find_arm_positions_optimized(notes_list, move_penalty, distance_penalty, note_timing, hand_type) ==
    LET valid == ValidIndices(notes_list, hand_type, 1)
        N == Len(valid)
        white_key_indices ==
            [k \in 1..N |-> note_to_white_key_index(notes_list[valid[k]])]
        valid_timing == ValidTiming(note_timing, valid)
        arm_position_ranges ==
            [k \in 1..N |-> ArmPositionRange(white_key_indices[k], hand_type)]
        rows == DpRows(arm_position_ranges, valid_timing, N,
                       move_penalty, distance_penalty)
        best == BestFinal(rows[N], arm_position_ranges[N])
        arm_positions == Backtrack(rows, N - 1, <<best.best_final_pos>>)
    IN  IF N = 0
        THEN [output |-> <<>>, min_cost |-> 0, best_final_moves |-> 0]
        ELSE [output |-> [k \in 1..N |->
                            ResultData(notes_list[valid[k]], white_key_indices[k],
                                       arm_positions[k], valid_timing[k],
                                       hand_type)],
              min_cost |-> best.min_cost,
              best_final_moves |-> best.best_final_moves]

\* --------------------------------------------------------- planner inputs
\* note names the inputs are drawn from: forced pitches of both hands (C4,
\* C8, B0, B3), a black key with a fingering rule (C#4) and one without
\* (Eb4), a key that needs a move away from C4 (C5), and a name with no
\* white-key index (D8)
NoteNames ==
    { Note("C", "", 4), Note("C", "#", 4), Note("E", "b", 4),
      Note("C", "", 5), Note("C", "", 8), Note("D", "", 8),
      Note("B", "", 0), Note("B", "", 3) }

\* durations in hundredths of a second: exactly the threshold, and longer
Durations == {25, 50}

\* <<move_penalty, distance_penalty>>: the defaults, a second setting, and
\* one under which two moves of 1 and 1 cost as much as one move of 2 held
\* for a note
Penalties == { <<5, 50>>, <<3, 2>>, <<4, 1>> }

HandTypes == {"left", "right", "both"}

\* note lists of length 0..MaxNotes
NoteLists == UNION { [1..n -> NoteNames] : n \in 0..MaxNotes }

\* a timing list for n notes: note k starts at (k-1) * 0.5 s
TimingLists(n) ==
    { [k \in 1..n |-> [start_time |-> (k - 1) * DEFAULT_DURATION,
                       duration |-> d[k],
                       velocity |-> DEFAULT_VELOCITY + k]] :
        d \in [1..n -> Durations] }

\* ------------------------------------------------------- capture channel
\* NOTE_NAMES of the recorder
NOTE_NAMES == <<"C", "C#", "D", "D#", "E", "F", "F#", "G", "G#", "A", "A#", "B">>

\* the note name of a MIDI note number, as <<name, octave>>
get_note_name(note_number) ==
    <<NOTE_NAMES[(note_number % 12) + 1], (note_number \div 12) - 1>>

get_hand_label(note_number) ==
    IF note_number < split_point THEN "left" ELSE "right"

\* pitches the keyboard plays in the model: one on each side of the split
Pitches == {59, 60}

\* the MIDI messages the port can deliver
MidiMessages ==
    [type : {"note_on"}, note : Pitches, velocity : {0, 64}]
        \cup [type : {"note_off"}, note : Pitches, velocity : {0}]
        \cup [type : {"control_change"}, note : {0}, velocity : {0}]

\* the attributes MidiPianoRecorder.__init__ sets on a recorder
RecorderAttributes ==
    {"active_notes", "port", "recorded_events", "start_time", "split_point",
     "left_hand_count", "right_hand_count", "message_queue"}

NoEvent == [action |-> "none"]

\* an event that is a release whatever the message was
QueueEventRelease(action, msg, timestamp) ==
    [action |-> "note_off", key_name |-> get_note_name(msg.note),
     midi_id |-> msg.note, timestamp |-> timestamp,
     hand |-> get_hand_label(msg.note)]

\* the structured event process_message hands to put_message
QueueEvent(action, msg, timestamp) ==
    [action |-> action, key_name |-> get_note_name(msg.note),
     midi_id |-> msg.note, timestamp |-> timestamp,
     hand |-> get_hand_label(msg.note)]

\* ------------------------------------------------------------------ state
VARIABLES
    notes_list,        \* planner argument: the note names
    note_timing,       \* planner argument: the timing list, <<>> when absent
    hand_type,         \* planner argument
    move_penalty,      \* planner argument
    distance_penalty,  \* planner argument
    planner_pc,        \* "call" before, "done" after find_arm_positions_optimized
    result,            \* the returned (output, min_cost, best_final_moves)
    filtered_notes,    \* the filter report the call builds (input indices)
    port_open,         \* recorder.port is open
    active_notes,      \* keys of recorder.active_notes
    message_queue,     \* recorder.message_queue, oldest first
    producer_pc,       \* start_recording thread: "recv", "put", "exited"
    pending_put,       \* the event a blocked put_message is holding
    msgs_received,     \* MIDI messages delivered so far (their clock)
    client_connected,  \* the /record client is still connected
    consumer_pc,       \* record_stream: "check", "get", "done"
    live_get,          \* the awaited get_message call: "none", "queued", "waiting"
    zombie_gets,       \* timed-out get_message calls still blocked in a thread
    yielded,           \* events record_stream has yielded, in order
    enqueued,          \* history: events message_queue.put() accepted, in order
    stop_signal_sent   \* recorder.should_stop was set by the cleanup

VARIABLES
    perform_pc,        \* perform_music: "idle", "perform", "wait_for",
                       \*   "timed_out", "finished"
    performance_pc,    \* stream_performance: "streaming", "closing", "returned"
    performance_error, \* stream_performance ended in its except clause
    record_task,       \* the stream_record task: "created", "reading",
                       \*   "closing", "cancelled", "finished"
    must_cancel,       \* record_task.cancel() was called and not yet delivered
    stop_event,        \* the asyncio.Event: set or not
    lines_read,        \* <<lines of the progress stream, lines of the capture stream>>
    written,           \* message types handed to the stream writer, in order
    outcome            \* how perform_music ended: "none", "returned", "CancelledError"

VARIABLES
    finger_note,       \* finger assignment of one note: valid_notes[i]
    finger_hand,       \* its hand_type
    finger_arm_pos,    \* arm_positions[i], the position the planner chose
    finger_pc,         \* "idle", "assign" before and "done" after the assignment
    result_data        \* the PlannedNote built for the note

VARIABLES
    midi_note,         \* pre-processing of one note: note['note'], its MIDI number
    call_hand,         \* the hand_type of the process_midi_to_fingering call
    options,           \* its transpose_octave, filter_low_notes and
                       \*   transpose_low_to_range arguments
    preprocess_pc,     \* "idle", "loop" before and "done" after the loop pass
    preprocessed       \* [kept, note_name]: what the pass did with the note

VARIABLES
    args,              \* merge_hand_fingering CLI: the parsed option flags
    midi_files_found,  \* what find_midi_files will find, per hand
    main_pc,           \* main(): "idle", "check_options", "find_files", "left",
                       \*   "right", "save", "returned"
    output_dir_made,   \* os.makedirs(output_dir) was called
    planner_calls,     \* the find_arm_positions_optimized calls made so far:
                       \*   their arguments and where each note came from
    artifacts_written, \* the files written under output_dir
    exit_status        \* exit status of the process, -1 while it runs

VARIABLES
    mid,               \* midi_to_notes: mid.tracks, the messages of each track
    midi_track,        \* track_idx of the track being read
    midi_msg,          \* how many messages of that track were read
    midi_state,        \* [current_time, pending, notes]: the tick counter,
                       \*   active_notes and the notes appended so far
    midi_pc,           \* "idle", "read" inside the loops, "done" after the sort
    midi_result        \* the sorted note list

plannerVars == <<notes_list, note_timing, hand_type, move_penalty,
                 distance_penalty, planner_pc, result, filtered_notes>>

captureVars == <<port_open, active_notes, message_queue, producer_pc,
                 pending_put, msgs_received, client_connected, consumer_pc,
                 live_get, zombie_gets, yielded, enqueued, stop_signal_sent>>

performVars == <<perform_pc, performance_pc, performance_error, record_task, must_cancel,
                 stop_event, lines_read, written, outcome>>

fingerVars == <<finger_note, finger_hand, finger_arm_pos, finger_pc,
                result_data>>

preprocessVars == <<midi_note, call_hand, options, preprocess_pc,
                    preprocessed>>

pipelineVars == <<args, midi_files_found, main_pc, output_dir_made,
                  planner_calls, artifacts_written, exit_status>>

midiVars == <<mid, midi_track, midi_msg, midi_state, midi_pc, midi_result>>

vars == <<plannerVars, captureVars, performVars, fingerVars, preprocessVars,
          pipelineVars, midiVars>>

\* what an operation of one component leaves alone
nonPlannerVars == <<captureVars, performVars, fingerVars, preprocessVars,
                    pipelineVars, midiVars>>
nonCaptureVars == <<plannerVars, performVars, fingerVars, preprocessVars,
                    pipelineVars, midiVars>>
nonPerformVars == <<plannerVars, captureVars, fingerVars, preprocessVars,
                    pipelineVars, midiVars>>
nonFingerVars == <<plannerVars, captureVars, performVars, preprocessVars,
                   pipelineVars, midiVars>>
nonPreprocessVars == <<plannerVars, captureVars, performVars, fingerVars,
                       pipelineVars, midiVars>>
nonPipelineVars == <<plannerVars, captureVars, performVars, fingerVars,
                     preprocessVars, midiVars>>
nonMidiVars == <<plannerVars, captureVars, performVars, fingerVars,
                 preprocessVars, pipelineVars>>

\* the option flags of the merge_hand_fingering command line
Args(transpose_right_octave, filter_left_low_notes, transpose_left_low_to_range) ==
    [transpose_right_octave |-> transpose_right_octave,
     filter_left_low_notes |-> filter_left_low_notes,
     transpose_left_low_to_range |-> transpose_left_low_to_range]

\* the merge_hand_fingering command line is not running
PipelineIdle ==
    /\ args = Args(FALSE, FALSE, FALSE)
    /\ midi_files_found = [left |-> FALSE, right |-> FALSE]
    /\ main_pc = "idle"
    /\ output_dir_made = FALSE
    /\ planner_calls = <<>>
    /\ artifacts_written = {}
    /\ exit_status = -1

\* midi_to_notes is not running by itself
MidiIdle ==
    /\ mid = <<>>
    /\ midi_track = 0
    /\ midi_msg = 0
    /\ midi_state = [current_time |-> 0, pending |-> <<>>, notes |-> <<>>]
    /\ midi_pc = "idle"
    /\ midi_result = <<>>

\* the arguments of a process_midi_to_fingering call
Options(transpose_octave, filter_low_notes, transpose_low_to_range) ==
    [transpose_octave |-> transpose_octave,
     filter_low_notes |-> filter_low_notes,
     transpose_low_to_range |-> transpose_low_to_range]

\* no single pre-processing pass is under way
PreprocessIdle ==
    /\ midi_note = 60
    /\ call_hand = "right"
    /\ options = Options(FALSE, FALSE, FALSE)
    /\ preprocess_pc = "idle"
    /\ preprocessed = [kept |-> FALSE, note_name |-> Note("C", "", 4)]

\* no single finger assignment is under way
FingerIdle ==
    /\ finger_note = Note("C", "", 4)
    /\ finger_hand = "right"
    /\ finger_arm_pos = 24
    /\ finger_pc = "idle"
    /\ result_data = [finger |-> 0]

\* perform_music is not running
PerformIdle ==
    /\ perform_pc = "idle"
    /\ performance_pc = "streaming"
    /\ performance_error = FALSE
    /\ record_task = "created"
    /\ must_cancel = FALSE
    /\ stop_event = FALSE
    /\ lines_read = <<0, 0>>
    /\ written = <<>>
    /\ outcome = "none"

NoResult == [output |-> <<>>, min_cost |-> 0, best_final_moves |-> 0]

\* a recorder right after select_device() succeeded and the recording thread
\* was started
CaptureStart ==
    /\ port_open = TRUE
    /\ active_notes = {}
    /\ message_queue = <<>>
    /\ producer_pc = "recv"
    /\ pending_put = NoEvent
    /\ msgs_received = 0
    /\ client_connected = TRUE
    /\ consumer_pc = "check"
    /\ live_get = "none"
    /\ zombie_gets = 0
    /\ yielded = <<>>
    /\ enqueued = <<>>
    /\ stop_signal_sent = FALSE

PlannerInit ==
    /\ notes_list \in NoteLists
    /\ note_timing \in TimingLists(Len(notes_list)) \cup {<<>>}
    /\ hand_type \in HandTypes
    /\ \E p \in Penalties : move_penalty = p[1] /\ distance_penalty = p[2]
    /\ planner_pc = "call"
    /\ result = NoResult
    /\ filtered_notes = <<>>
    /\ CaptureStart
    /\ PerformIdle
    /\ FingerIdle
    /\ PreprocessIdle
    /\ PipelineIdle
    /\ MidiIdle

\* one call of find_arm_positions_optimized on the drawn arguments
CallFindArmPositions ==
    /\ planner_pc = "call"
    /\ result' = find_arm_positions_optimized(notes_list, move_penalty,
                     distance_penalty, note_timing, hand_type)
    /\ filtered_notes' = FilteredIndices(notes_list, hand_type, 1)
    /\ planner_pc' = "done"
    /\ UNCHANGED <<notes_list, note_timing, hand_type, move_penalty,
                   distance_penalty>>
    /\ UNCHANGED nonPlannerVars

PlannerNext == CallFindArmPositions

SpecPlanner == PlannerInit /\ [][PlannerNext]_vars

\* ------------------------------------------------- planner: claim helpers
PlannerDone == planner_pc = "done"

\* the arm positions of the emitted trajectory
ArmOf(output) == [k \in 1..Len(output) |-> output[k].arm_position]

\* sum over k >= 2 of |a[k] - a[k-1]|
RECURSIVE TravelUpTo(_, _)
TravelUpTo(a, k) ==
    IF k < 2 THEN 0 ELSE TravelUpTo(a, k - 1) + Abs(a[k] - a[k - 1])

Travel(a) == TravelUpTo(a, Len(a))

\* the stated objective: sum over k >= 2 of d + distance_penalty * d^2 +
\* move_penalty * [d > 0]
RECURSIVE StatedCostUpTo(_, _)
StatedCostUpTo(a, k) ==
    IF k < 2 THEN 0
    ELSE LET d == Abs(a[k] - a[k - 1])
         IN  StatedCostUpTo(a, k - 1) + d + distance_penalty * d * d
                 + (IF d > 0 THEN move_penalty ELSE 0)

StatedCost(a) == StatedCostUpTo(a, Len(a))

\* the retained notes of the current input, with their windows and timing
Retained == ValidIndices(notes_list, hand_type, 1)

RetainedWindow(k) ==
    ArmPositionRange(note_to_white_key_index(notes_list[Retained[k]]), hand_type)

RetainedTiming == ValidTiming(note_timing, Retained)

\* every arm-position sequence for the first k retained notes that stays in
\* the windows and never moves after a note of duration <= 0.25 s
RECURSIVE AdmissiblePaths(_)
AdmissiblePaths(k) ==
    IF k = 0 THEN { <<>> }
    ELSE { Append(p, a) :
             <<p, a>> \in { q \in AdmissiblePaths(k - 1)
                                  \X (RetainedWindow(k)[1]..RetainedWindow(k)[2]) :
                              k >= 2 /\ q[2] # q[1][k - 1]
                                  => RetainedTiming[k - 1].duration > SHORT_NOTE } }

\* the guard leaves at least one admissible sequence for the whole input
Feasible == AdmissiblePaths(Len(Retained)) # {}

\* ---------------------------------------------------------------- claims

\* C1: every PlannedNote emitted for hand 'right' or 'left' has
\* 0 <= white_key_index - arm_position <= 5 (right) or <= 4 (left), also
\* when the short-note guard blocks every path.
C1_OffsetWithinReach ==
    PlannerDone /\ hand_type \in {"left", "right"} =>
        \A k \in 1..Len(result.output) :
            LET offset == result.output[k].white_key_index
                              - result.output[k].arm_position
            IN  0 <= offset /\ offset <= (IF hand_type = "right" THEN 5 ELSE 4)

\* C2: in every returned trajectory, a change of arm position between two
\* adjacent PlannedNotes implies the earlier one lasts strictly longer than
\* 0.25 s.
C2_NoMoveAfterShortNote ==
    PlannerDone =>
        \A k \in 2..Len(result.output) :
            result.output[k].arm_position # result.output[k - 1].arm_position
                => result.output[k - 1].duration > SHORT_NOTE

\* C3: when the guard leaves no admissible sequence, the planner returns a
\* best-effort trajectory (every arm position inside its note's window) and
\* the returned value carries an explicit infeasibility mark.
C3_InfeasibleIsMarked ==
    PlannerDone /\ Len(Retained) > 0 /\ ~Feasible =>
        /\ \A k \in 1..Len(result.output) :
               /\ RetainedWindow(k)[1] <= result.output[k].arm_position
               /\ result.output[k].arm_position <= RetainedWindow(k)[2]
        /\ "infeasible" \in DOMAIN result

\* C4: the second element of the result equals the sum over i >= 1 of
\* |arm_position[i] - arm_position[i-1]| of the emitted PlannedNotes.
C4_ReportedDistanceIsTravel ==
    PlannerDone => result.min_cost = Travel(ArmOf(result.output))

\* C5: for a feasible input, the emitted arm positions minimise the stated
\* objective over all admissible sequences.
C5_TrajectoryMinimisesCost ==
    PlannerDone /\ Len(Retained) > 0 /\ Feasible =>
        \A p \in AdmissiblePaths(Len(Retained)) :
            StatedCost(ArmOf(result.output)) <= StatedCost(p)

\* C6: the trajectory length is the input length minus the number of notes
\* recorded as filtered, and the retained notes appear once each in input
\* order with their own start time, duration and velocity.
C6_LengthAndOrder ==
    PlannerDone =>
        /\ Len(result.output) = Len(notes_list) - Len(filtered_notes)
        /\ \A k \in 1..Len(result.output) :
               /\ result.output[k].note = notes_list[Retained[k]]
               /\ note_timing # <<>> =>
                    /\ result.output[k].start_time
                           = note_timing[Retained[k]].start_time
                    /\ result.output[k].duration
                           = note_timing[Retained[k]].duration
                    /\ result.output[k].velocity
                           = note_timing[Retained[k]].velocity

\* C7: pinky_key_type is 'extended' exactly when the hand is right, the
\* finger is 5 and white_key_index - arm_position = 5.
C7_ExtendedIffRightPinkyOffset5 ==
    PlannerDone =>
        \A k \in 1..Len(result.output) :
            LET p == result.output[k]
            IN  p.pinky_key_type = "extended"
                    <=> (p.hand = "right" /\ p.finger = 5
                         /\ p.white_key_index - p.arm_position = 5)

\* C8: a forced-position pitch always gets the dictated finger and arm
\* position: right C4 -> finger 1 at 24, right B7 / C8 -> finger 5 at 46..47 /
\* 47..48, left A0 / B0 -> finger 5 at 1 / 2, left B3 -> finger 1 at 19.
C8_ForcedPositions ==
    PlannerDone =>
        \A k \in 1..Len(result.output) :
            LET p == result.output[k]
                Forced(h, n, f, lo, hi) ==
                    p.hand = h /\ p.note = n =>
                        p.finger = f /\ lo <= p.arm_position /\ p.arm_position <= hi
            IN  /\ Forced("right", Note("C", "", 4), 1, 24, 24)
                /\ Forced("right", Note("B", "", 7), 5, 46, 47)
                /\ Forced("right", Note("C", "", 8), 5, 47, 48)
                /\ Forced("left", Note("A", "", 0), 5, 1, 1)
                /\ Forced("left", Note("B", "", 0), 5, 2, 2)
                /\ Forced("left", Note("B", "", 3), 1, 19, 19)

\* the scenario of C13: right hand, C4 then C5, both lasting 0.5 s (given
\* as timing or left to the default), default penalties
ScenarioC4C5 ==
    /\ hand_type = "right"
    /\ notes_list = <<Note("C", "", 4), Note("C", "", 5)>>
    /\ move_penalty = 5 /\ distance_penalty = 50
    /\ \A k \in 1..Len(note_timing) : note_timing[k].duration = 50

\* C13 as stated: for the right-hand input [C4, C5] with both durations
\* 0.5 s and default penalties, the arm positions are 24 then 31 (distance
\* 7), both notes get finger 1 with pinky type normal, and one move is
\* counted.
C13_ThumbOnBothNotes ==
    PlannerDone /\ ScenarioC4C5 =>
        /\ ArmOf(result.output) = <<24, 31>>
        /\ \A k \in 1..Len(result.output) :
               /\ result.output[k].finger = 1
               /\ result.output[k].pinky_key_type = "normal"
        /\ result.best_final_moves = 1

\* C13 amended: for that input the arm positions are 24 then 26 (distance
\* 2), C4 gets finger 1 with pinky type normal, C5 gets finger 5 with pinky
\* type extended, and one move is counted.
C13_ShortestMoveWithExtendedPinky ==
    PlannerDone /\ ScenarioC4C5 =>
        /\ Len(result.output) = 2
        /\ ArmOf(result.output) = <<24, 26>>
        /\ result.output[1].finger = 1
        /\ result.output[1].pinky_key_type = "normal"
        /\ result.output[2].finger = 5
        /\ result.output[2].pinky_key_type = "extended"
        /\ result.best_final_moves = 1

\* the planner has run on the scenario with explicit timing
C13_Witness ==
    PlannerDone /\ ScenarioC4C5 /\ note_timing # <<>> /\ Len(result.output) = 2

\* the pitch of a note lies in the hand's hardware range: A0..B3 (semitones
\* 21..59) for the left hand, C4..C8 (60..108) for the right hand
InHardwareRange(note, hand) ==
    LET semitone == note_to_midi_number(note)
    IN  IF hand = "left" THEN 21 <= semitone /\ semitone <= 59
        ELSE 60 <= semitone /\ semitone <= 108

\* the input indices recorded in the filter report
FilterReport == { filtered_notes[k] : k \in 1..Len(filtered_notes) }

\* C14: every input note whose pitch lies outside the hand's hardware range
\* is absent from the trajectory and is recorded in the filter report, and
\* no PlannedNote has a white_key_index outside 1..23 (left) or 24..52
\* (right).
C14_OutOfRangeFilteredAndReported ==
    PlannerDone /\ hand_type \in {"left", "right"} =>
        /\ \A i \in 1..Len(notes_list) :
               ~InHardwareRange(notes_list[i], hand_type) =>
                   /\ \A k \in 1..Len(result.output) :
                          result.output[k].note # notes_list[i]
                   /\ i \in FilterReport
        /\ \A k \in 1..Len(result.output) :
               LET w == result.output[k].white_key_index
               IN  IF hand_type = "left" THEN 1 <= w /\ w <= 23
                   ELSE 24 <= w /\ w <= 52

RetainedRanges == [k \in 1..Len(Retained) |-> RetainedWindow(k)]

RetainedRows ==
    DpRows(RetainedRanges, RetainedTiming, Len(Retained), move_penalty,
           distance_penalty)

\* the predecessor positions the inner loop of cell (i, current_pos) does not
\* skip, each with the move count and the accumulated cost it would give
Candidates(i, current_pos) ==
    { [prev |-> q,
       moves |-> RetainedRows[i - 1][q].moves
                     + (IF current_pos # q THEN 1 ELSE 0),
       cost |-> TotalCost(RetainedRows[i - 1][q].cost, Abs(current_pos - q),
                    RetainedRows[i - 1][q].moves
                        + (IF current_pos # q THEN 1 ELSE 0),
                    move_penalty, distance_penalty)] :
        q \in { r \in RetainedRanges[i - 1][1]..RetainedRanges[i - 1][2] :
                  /\ RetainedRows[i - 1][r].cost # INF
                  /\ ~ShortNoteBlocks(Abs(current_pos - r),
                                      RetainedTiming[i - 1].duration) } }

\* (moves, pos) is not after (other_moves, other_pos): fewer moves, or as
\* many and a position that is not larger
Preferred(moves, pos, other_moves, other_pos) ==
    moves < other_moves \/ (moves = other_moves /\ pos <= other_pos)

\* C23: when several predecessor positions give the same accumulated cost
\* for a DP cell, the planner keeps the one with the smaller move count, and
\* among those the smallest predecessor position; the same preference
\* decides between equal-cost final positions.
C23_TiesPreferFewerMoves ==
    PlannerDone /\ Len(Retained) > 0 =>
        LET N == Len(Retained)
        IN  /\ \A i \in 2..N :
                  \A pos \in RetainedRanges[i][1]..RetainedRanges[i][2] :
                      \A c \in Candidates(i, pos) :
                          c.cost = RetainedRows[i][pos].cost =>
                              Preferred(RetainedRows[i][pos].moves,
                                        RetainedRows[i][pos].prev,
                                        c.moves, c.prev)
            /\ \A pos \in RetainedRanges[N][1]..RetainedRanges[N][2] :
                  RetainedRows[N][pos].cost = result.min_cost =>
                      Preferred(result.best_final_moves,
                                result.output[N].arm_position,
                                RetainedRows[N][pos].moves, pos)

\* the arm positions that are admissible for every retained note
CommonPositions ==
    { pos \in 1..max_arm_position :
        \A k \in 1..Len(Retained) :
            RetainedWindow(k)[1] <= pos /\ pos <= RetainedWindow(k)[2] }

\* C24: if some single arm position is admissible for every retained note
\* of the input, the trajectory uses one arm position for all notes and
\* reports zero moves, for any durations and any positive penalties.
C24_OnePositionNoMoves ==
    PlannerDone /\ Len(Retained) > 0 /\ CommonPositions # {} =>
        /\ \A k \in 1..Len(result.output) :
               result.output[k].arm_position = result.output[1].arm_position
        /\ result.output[1].arm_position \in CommonPositions
        /\ result.best_final_moves = 0

\* three right-hand notes, not all the same and not all long, that share a
\* position and were played from it
C24_Witness ==
    /\ PlannerDone
    /\ hand_type = "right"
    /\ Len(result.output) = 3
    /\ CommonPositions # {}
    /\ notes_list[1] # notes_list[2]
    /\ note_timing # <<>>
    /\ note_timing[1].duration = SHORT_NOTE
    /\ result.output[3].arm_position = result.output[1].arm_position
    /\ result.best_final_moves = 0

\* the number of k >= 2 with a[k] # a[k-1]
RECURSIVE ChangesUpTo(_, _)
ChangesUpTo(a, k) ==
    IF k < 2 THEN 0
    ELSE ChangesUpTo(a, k - 1) + (IF a[k] # a[k - 1] THEN 1 ELSE 0)

\* C30: the move count returned by find_arm_positions_optimized equals the
\* number of indices i >= 1 in the emitted trajectory with
\* arm_position[i] # arm_position[i-1], for every input.
C30_MoveCountIsChanges ==
    PlannerDone =>
        result.best_final_moves
            = ChangesUpTo(ArmOf(result.output), Len(result.output))

\* ------------------------------------------------ capture channel: steps
\* the producer thread reads one message from the port and runs
\* process_message on it; put_message is a blocking put, so on a full queue
\* the thread stays inside put_message holding the event
ProcessMessage(msg) ==
    /\ producer_pc = "recv"
    /\ port_open
    /\ msgs_received < MaxMsgs
    /\ msgs_received' = msgs_received + 1
    /\ LET timestamp == msgs_received + 1
           Put(ev) ==
               IF Len(message_queue) < QueueMaxsize
               THEN /\ message_queue' = Append(message_queue, ev)
                    /\ enqueued' = Append(enqueued, ev)
                    /\ UNCHANGED <<producer_pc, pending_put>>
               ELSE /\ producer_pc' = "put"
                    /\ pending_put' = ev
                    /\ UNCHANGED <<message_queue, enqueued>>
       IN  IF msg.type = "note_on" /\ msg.velocity > 0
           THEN /\ active_notes' = active_notes \cup {msg.note}
                /\ Put(QueueEvent("note_on", msg, timestamp))
           ELSE IF msg.type = "note_off"
                   \/ (msg.type = "note_on" /\ msg.velocity = 0)
           THEN IF msg.note \in active_notes
                THEN /\ active_notes' = active_notes \ {msg.note}
                     /\ Put(QueueEvent("note_off", msg, timestamp))
                ELSE UNCHANGED <<active_notes, message_queue, producer_pc,
                                 pending_put, enqueued>>
           ELSE UNCHANGED <<active_notes, message_queue, producer_pc,
                            pending_put, enqueued>>
    /\ UNCHANGED <<port_open, client_connected, consumer_pc, live_get,
                   zombie_gets, yielded, stop_signal_sent>>
    /\ UNCHANGED nonCaptureVars

\* a put() that was blocked on the full queue goes through once a slot is free
PutUnblocks ==
    /\ producer_pc = "put"
    /\ Len(message_queue) < QueueMaxsize
    /\ message_queue' = Append(message_queue, pending_put)
    /\ enqueued' = Append(enqueued, pending_put)
    /\ pending_put' = NoEvent
    /\ producer_pc' = "recv"
    /\ UNCHANGED <<port_open, active_notes, msgs_received, client_connected,
                   consumer_pc, live_get, zombie_gets, yielded, stop_signal_sent>>
    /\ UNCHANGED nonCaptureVars

\* the iteration over the port ends once the port is closed; the finally
\* clause of start_recording closes the port again and the thread returns
ProducerExits ==
    /\ producer_pc = "recv"
    /\ ~port_open
    /\ producer_pc' = "exited"
    /\ UNCHANGED <<port_open, active_notes, message_queue, pending_put,
                   msgs_received, client_connected, consumer_pc, live_get,
                   zombie_gets, yielded, stop_signal_sent>>
    /\ UNCHANGED enqueued
    /\ UNCHANGED nonCaptureVars

\* the client goes away
ClientDisconnects ==
    /\ client_connected
    /\ client_connected' = FALSE
    /\ UNCHANGED <<port_open, active_notes, message_queue, producer_pc,
                   pending_put, msgs_received, consumer_pc, live_get,
                   zombie_gets, yielded, stop_signal_sent>>
    /\ UNCHANGED enqueued
    /\ UNCHANGED nonCaptureVars

\* record_stream, top of the loop with the client still there: get_message
\* is handed to the executor, which runs it in a thread when one is free
StartGet ==
    /\ consumer_pc = "check"
    /\ client_connected
    /\ consumer_pc' = "get"
    /\ live_get' = IF zombie_gets < MaxGetters THEN "waiting" ELSE "queued"
    /\ UNCHANGED <<port_open, active_notes, message_queue, producer_pc,
                   pending_put, msgs_received, client_connected, zombie_gets,
                   yielded, stop_signal_sent>>
    /\ UNCHANGED enqueued
    /\ UNCHANGED nonCaptureVars

\* a queued get_message call starts once an executor thread is free
QueuedGetStarts ==
    /\ live_get = "queued"
    /\ zombie_gets < MaxGetters
    /\ live_get' = "waiting"
    /\ UNCHANGED <<port_open, active_notes, message_queue, producer_pc,
                   pending_put, msgs_received, client_connected, consumer_pc,
                   zombie_gets, yielded, stop_signal_sent>>
    /\ UNCHANGED enqueued
    /\ UNCHANGED nonCaptureVars

\* get_message on a last-in-first-out queue: the newest event is returned
LiveGetReturnsNewest ==
    /\ consumer_pc = "get"
    /\ live_get = "waiting"
    /\ message_queue # <<>>
    /\ yielded' = Append(yielded, message_queue[Len(message_queue)])
    /\ message_queue' = SubSeq(message_queue, 1, Len(message_queue) - 1)
    /\ live_get' = "none"
    /\ consumer_pc' = "check"
    /\ UNCHANGED <<port_open, active_notes, producer_pc, pending_put,
                   msgs_received, client_connected, zombie_gets,
                   stop_signal_sent>>
    /\ UNCHANGED enqueued
    /\ UNCHANGED nonCaptureVars

\* the awaited get_message returns the oldest event and record_stream
\* yields it
LiveGetReturns ==
    /\ consumer_pc = "get"
    /\ live_get = "waiting"
    /\ message_queue # <<>>
    /\ yielded' = Append(yielded, Head(message_queue))
    /\ message_queue' = Tail(message_queue)
    /\ live_get' = "none"
    /\ consumer_pc' = "check"
    /\ UNCHANGED <<port_open, active_notes, producer_pc, pending_put,
                   msgs_received, client_connected, zombie_gets,
                   stop_signal_sent>>
    /\ UNCHANGED enqueued
    /\ UNCHANGED nonCaptureVars

\* wait_for gives up after 1 s with nothing in the queue: the future is
\* cancelled, a get_message call already running stays blocked in its thread
GetTimesOut ==
    /\ consumer_pc = "get"
    /\ live_get # "none"
    /\ message_queue = <<>>
    /\ zombie_gets' = IF live_get = "waiting" THEN zombie_gets + 1 ELSE zombie_gets
    /\ live_get' = "none"
    /\ consumer_pc' = "check"
    /\ UNCHANGED <<port_open, active_notes, message_queue, producer_pc,
                   pending_put, msgs_received, client_connected, yielded,
                   stop_signal_sent>>
    /\ UNCHANGED enqueued
    /\ UNCHANGED nonCaptureVars

\* a get_message call nobody awaits any more takes the oldest event
ZombieGetReturns ==
    /\ zombie_gets > 0
    /\ message_queue # <<>>
    /\ message_queue' = Tail(message_queue)
    /\ zombie_gets' = zombie_gets - 1
    /\ UNCHANGED <<port_open, active_notes, producer_pc, pending_put,
                   msgs_received, client_connected, consumer_pc, live_get,
                   yielded, stop_signal_sent>>
    /\ UNCHANGED enqueued
    /\ UNCHANGED nonCaptureVars

\* record_stream leaves the loop (the disconnect is seen at the top of the
\* loop, or the generator is cancelled while it awaits the get) and runs its
\* finally block: should_stop is set only if the recorder has that attribute,
\* then the port is closed
StreamCleanup ==
    /\ consumer_pc \in {"check", "get"}
    /\ ~client_connected
    /\ stop_signal_sent' = ("should_stop" \in RecorderAttributes)
    /\ port_open' = FALSE
    /\ zombie_gets' = IF live_get = "waiting" THEN zombie_gets + 1 ELSE zombie_gets
    /\ live_get' = "none"
    /\ consumer_pc' = "done"
    /\ UNCHANGED <<active_notes, message_queue, producer_pc, pending_put,
                   msgs_received, client_connected, yielded>>
    /\ UNCHANGED enqueued
    /\ UNCHANGED nonCaptureVars

CaptureInit ==
    /\ CaptureStart
    /\ notes_list = <<>>
    /\ note_timing = <<>>
    /\ hand_type = "both"
    /\ move_penalty = 5
    /\ distance_penalty = 50
    /\ planner_pc = "idle"
    /\ result = NoResult
    /\ filtered_notes = <<>>
    /\ PerformIdle
    /\ FingerIdle
    /\ PreprocessIdle
    /\ PipelineIdle
    /\ MidiIdle

CaptureNext ==
    \/ \E msg \in MidiMessages : ProcessMessage(msg)
    \/ PutUnblocks
    \/ ProducerExits
    \/ ClientDisconnects
    \/ StartGet
    \/ QueuedGetStarts
    \/ LiveGetReturns
    \/ GetTimesOut
    \/ ZombieGetReturns
    \/ StreamCleanup

SpecCapture == CaptureInit /\ [][CaptureNext]_vars

\* the threads and the event loop keep running: every step of the producer
\* thread, of the executor threads and of record_stream that stays possible
\* is eventually taken; the keyboard and the client are under no obligation
FairSpecCapture ==
    /\ SpecCapture
    /\ WF_vars(PutUnblocks)
    /\ WF_vars(ProducerExits)
    /\ WF_vars(StartGet)
    /\ WF_vars(QueuedGetStarts)
    /\ WF_vars(LiveGetReturns)
    /\ WF_vars(GetTimesOut)
    /\ WF_vars(ZombieGetReturns)
    /\ WF_vars(StreamCleanup)

\* C9: the capture producer never blocks on the event queue: with the queue
\* at capacity, a further note event is dropped and process_message returns,
\* so the producer thread is never found waiting inside put_message.
C9_ProducerNeverBlocks ==
    ~(producer_pc = "put" /\ Len(message_queue) = QueueMaxsize)

\* C10: once record_stream has finished after a disconnect or cancellation,
\* the producer thread eventually terminates and the MIDI port is closed, in
\* every interleaving.
C10_ProducerStopsAfterDisconnect ==
    (consumer_pc = "done") ~> (producer_pc = "exited" /\ ~port_open)

\* s is t with some elements left out: the elements of s appear in t in the
\* same relative order
RECURSIVE IsSubsequence(_, _)
IsSubsequence(s, t) ==
    IF s = <<>> THEN TRUE
    ELSE IF t = <<>> THEN FALSE
    ELSE IF Head(s) = Head(t) THEN IsSubsequence(Tail(s), Tail(t))
    ELSE IsSubsequence(s, Tail(t))

\* C11: capture events are never reordered: the events record_stream has
\* yielded appear in the order in which the producer enqueued them, in every
\* interleaving of the producer thread, the executor threads running
\* get_message and the read timeouts.
C11_NeverReordered == IsSubsequence(yielded, enqueued)

\* two events were yielded around one that a timed-out get_message call took
C11_Witness ==
    \E i, j, k \in 1..Len(enqueued) :
        /\ i < j /\ j < k
        /\ \E m \in 1..Len(yielded) - 1 :
               yielded[m] = enqueued[i] /\ yielded[m + 1] = enqueued[k]

\* ------------------------------------------------ perform_music: steps
\* the planner of this request is not running
PlannerIdle ==
    /\ notes_list = <<>>
    /\ note_timing = <<>>
    /\ hand_type = "both"
    /\ move_penalty = 5
    /\ distance_penalty = 50
    /\ planner_pc = "idle"
    /\ result = NoResult
    /\ filtered_notes = <<>>

\* the lines a stream can deliver: a progress line carries a JSON object
\* with "log", one with "summary", or anything else; a capture line starts
\* with 'data: ' or does not
PerformanceLines == {"log", "summary", "other"}
RecordLines == {"data", "other"}

\* the stream_record task has ended
RecordTaskDone == record_task \in {"cancelled", "finished"}

\* perform_music has created the record task and awaits stream_performance()
PerformInit ==
    /\ perform_pc = "perform"
    /\ performance_pc = "streaming"
    /\ performance_error = FALSE
    /\ record_task = "created"
    /\ must_cancel = FALSE
    /\ stop_event = FALSE
    /\ lines_read = <<0, 0>>
    /\ written = <<>>
    /\ outcome = "none"
    /\ PlannerIdle
    /\ CaptureStart
    /\ FingerIdle
    /\ PreprocessIdle
    /\ PipelineIdle
    /\ MidiIdle

\* stream_performance reads one line and writes a playing_log or a
\* playing_summary message for it
PerformanceReceivesLine(line) ==
    /\ perform_pc = "perform"
    /\ performance_pc = "streaming"
    /\ lines_read[1] < MaxLines
    /\ lines_read' = <<lines_read[1] + 1, lines_read[2]>>
    /\ written' = IF line = "log" THEN Append(written, "playing_log")
                  ELSE IF line = "summary" THEN Append(written, "playing_summary")
                  ELSE written
    /\ UNCHANGED <<perform_pc, performance_pc, performance_error, record_task,
                   must_cancel, stop_event, outcome>>
    /\ UNCHANGED nonPerformVars

\* the progress stream ends, or an exception is raised in it: the two
\* async with blocks are left, which awaits the closing of the connection
PerformanceStreamEnds(error) ==
    /\ perform_pc = "perform"
    /\ performance_pc = "streaming"
    /\ performance_pc' = "closing"
    /\ performance_error' = error
    /\ UNCHANGED <<perform_pc, record_task, must_cancel, stop_event,
                   lines_read, written, outcome>>
    /\ UNCHANGED nonPerformVars

\* perform_music without its finally clause: it returns as soon as
\* stream_performance() does
PerformanceReturnsNoCleanup ==
    /\ perform_pc = "perform"
    /\ performance_pc = "closing"
    /\ performance_pc' = "returned"
    /\ perform_pc' = "finished"
    /\ outcome' = "returned"
    /\ UNCHANGED <<performance_error, record_task, must_cancel, stop_event,
                   lines_read, written>>
    /\ UNCHANGED nonPerformVars

\* stream_performance() returns (an exception was caught by its except
\* clause) and, without an await in between, the finally clause of
\* perform_music sets the stop event, cancels the record task and starts
\* wait_for(record_task, timeout=2.0)
PerformanceReturns ==
    /\ perform_pc = "perform"
    /\ performance_pc = "closing"
    /\ performance_pc' = "returned"
    /\ stop_event' = TRUE
    /\ must_cancel' = ~RecordTaskDone
    /\ perform_pc' = "wait_for"
    /\ UNCHANGED <<performance_error, record_task, lines_read, written, outcome>>
    /\ UNCHANGED nonPerformVars

\* the record task runs for the first time: it opens the capture stream
RecordStarts ==
    /\ perform_pc # "idle"
    /\ record_task = "created"
    /\ ~must_cancel
    /\ record_task' = "reading"
    /\ UNCHANGED <<perform_pc, performance_pc, performance_error, must_cancel,
                   stop_event, lines_read, written, outcome>>
    /\ UNCHANGED nonPerformVars

\* stream_record reads one line: it leaves the loop when the stop event is
\* set, and writes a key_position message for a 'data: ' line otherwise
RecordReceivesLine(line) ==
    /\ record_task = "reading"
    /\ ~must_cancel
    /\ lines_read[2] < MaxLines
    /\ lines_read' = <<lines_read[1], lines_read[2] + 1>>
    /\ IF stop_event
       THEN /\ record_task' = "finished"
            /\ UNCHANGED written
       ELSE /\ written' = IF line = "data" THEN Append(written, "key_position")
                          ELSE written
            /\ UNCHANGED record_task
    /\ UNCHANGED <<perform_pc, performance_pc, performance_error, must_cancel,
                   stop_event, outcome>>
    /\ UNCHANGED nonPerformVars

\* the capture stream ends, or an exception other than a cancellation is
\* caught by the except clause: the task ends normally
RecordStreamEnds ==
    /\ record_task = "reading"
    /\ ~must_cancel
    /\ record_task' = "finished"
    /\ UNCHANGED <<perform_pc, performance_pc, performance_error, must_cancel,
                   stop_event, lines_read, written, outcome>>
    /\ UNCHANGED nonPerformVars

\* the requested cancellation reaches the task at its next step: a task that
\* never ran is cancelled at once, a running one gets CancelledError at its
\* await and leaves its async with blocks, re-raising the error
RecordCancelled ==
    /\ must_cancel
    /\ ~RecordTaskDone
    /\ must_cancel' = FALSE
    /\ record_task' = IF record_task = "created" THEN "cancelled" ELSE "closing"
    /\ UNCHANGED <<perform_pc, performance_pc, performance_error, stop_event,
                   lines_read, written, outcome>>
    /\ UNCHANGED nonPerformVars

\* the connection of the cancelled task is closed and the task ends cancelled
RecordCloseDone ==
    /\ record_task = "closing"
    /\ ~must_cancel
    /\ record_task' = "cancelled"
    /\ UNCHANGED <<perform_pc, performance_pc, performance_error, must_cancel,
                   stop_event, lines_read, written, outcome>>
    /\ UNCHANGED nonPerformVars

\* wait_for sees the task end within the timeout and returns its result: a
\* cancelled task's result is CancelledError, which except TimeoutError does
\* not catch
WaitForEnds ==
    /\ perform_pc = "wait_for"
    /\ RecordTaskDone
    /\ perform_pc' = "finished"
    /\ outcome' = IF record_task = "cancelled" THEN "CancelledError"
                  ELSE "returned"
    /\ UNCHANGED <<performance_pc, performance_error, record_task, must_cancel,
                   stop_event, lines_read, written>>
    /\ UNCHANGED nonPerformVars

\* the 2 s of wait_for pass with the task still running: wait_for cancels
\* the task and waits for it to end before it raises TimeoutError
WaitForTimesOut ==
    /\ perform_pc = "wait_for"
    /\ ~RecordTaskDone
    /\ perform_pc' = "timed_out"
    /\ must_cancel' = TRUE
    /\ UNCHANGED <<performance_pc, performance_error, record_task, stop_event,
                   lines_read, written, outcome>>
    /\ UNCHANGED nonPerformVars

\* TimeoutError is caught: the task is cancelled again and awaited, its
\* CancelledError is caught, and perform_music returns state
TimedOutEnds ==
    /\ perform_pc = "timed_out"
    /\ RecordTaskDone
    /\ perform_pc' = "finished"
    /\ outcome' = "returned"
    /\ UNCHANGED <<performance_pc, performance_error, record_task, must_cancel,
                   stop_event, lines_read, written>>
    /\ UNCHANGED nonPerformVars

PerformNext ==
    \/ \E line \in PerformanceLines : PerformanceReceivesLine(line)
    \/ \E error \in BOOLEAN : PerformanceStreamEnds(error)
    \/ PerformanceReturns
    \/ RecordStarts
    \/ \E line \in RecordLines : RecordReceivesLine(line)
    \/ RecordStreamEnds
    \/ RecordCancelled
    \/ RecordCloseDone
    \/ WaitForEnds
    \/ WaitForTimesOut
    \/ TimedOutEnds

SpecPerform == PerformInit /\ [][PerformNext]_vars

\* the key_position messages among the written ones
KeyPositions(w) == SelectSeq(w, LAMBDA t : t = "key_position")

\* C12: once the performance-progress stream has completed (normally or by
\* an error), the capture subscriber task emits no further key_position
\* message, and it is no longer running when perform_music finishes.
C12_CaptureCancelledOnCompletion ==
    /\ [][performance_pc = "returned"
              => KeyPositions(written') = KeyPositions(written)]_vars
    /\ [](perform_pc = "finished" => RecordTaskDone)

\* perform_music has finished after a progress stream that ended by an
\* error, with a capture task that had written key positions and was cancelled
C12_Witness ==
    /\ perform_pc = "finished"
    /\ performance_error
    /\ record_task = "cancelled"
    /\ KeyPositions(written) # <<>>

\* ------------------------------------------ finger assignment of one note
\* every note name of octaves 0..8, written natural, sharp or flat
AllNoteNames ==
    { Note(l, a, o) : l \in {"C", "D", "E", "F", "G", "A", "B"},
                      a \in {"", "#", "b"}, o \in 0..8 }

\* the note names the filtering loop keeps for a hand
NotesOfHand(hand) ==
    { n \in AllNoteNames :
        /\ note_to_white_key_index(n) # -1
        /\ InHandRange(note_to_white_key_index(n), hand) }

\* the arm positions the planner can emit for a note: the positions of its
\* window, and -1 when the short-note guard left no path
ArmPositionsOf(note, hand) ==
    LET r == ArmPositionRange(note_to_white_key_index(note), hand)
    IN  (r[1]..r[2]) \cup {-1}

FingerInit ==
    /\ finger_hand \in {"left", "right"}
    /\ finger_note \in NotesOfHand(finger_hand)
    /\ finger_arm_pos \in ArmPositionsOf(finger_note, finger_hand)
    /\ finger_pc = "assign"
    /\ result_data = [finger |-> 0]
    /\ PlannerIdle
    /\ CaptureStart
    /\ PerformIdle
    /\ PreprocessIdle
    /\ PipelineIdle
    /\ MidiIdle

\* one pass of the finger-assignment loop and of the output loop
AssignFinger ==
    /\ finger_pc = "assign"
    /\ result_data' = ResultData(finger_note,
                          note_to_white_key_index(finger_note), finger_arm_pos,
                          [start_time |-> 0, duration |-> DEFAULT_DURATION,
                           velocity |-> DEFAULT_VELOCITY],
                          finger_hand)
    /\ finger_pc' = "done"
    /\ UNCHANGED <<finger_note, finger_hand, finger_arm_pos>>
    /\ UNCHANGED nonFingerVars

FingerNext == AssignFinger

SpecFinger == FingerInit /\ [][FingerNext]_vars

\* the fixed rule of the black keys, by hand and written pitch class
BlackKeyRule(hand, l, o) ==
    IF hand = "right"
    THEN (IF l = "C" THEN 2 ELSE IF l = "D" THEN 3 ELSE IF l = "F" THEN 2
          ELSE IF l = "G" THEN 3 ELSE 4)
    ELSE (IF l = "A" /\ o = 0 THEN 4
          ELSE IF l = "C" THEN 3 ELSE IF l = "D" THEN 2 ELSE IF l = "F" THEN 4
          ELSE IF l = "G" THEN 3 ELSE 2)

\* the note is one of the black keys C#, D#, F#, G#, A#
IsSharpBlackKey(n) == n.a = "#" /\ n.l \in {"C", "D", "F", "G", "A"}

\* C15: for every black key C#, D#, F#, G#, A# inside the hand's range the
\* finger is the fixed rule value whatever arm position the planner chose:
\* right hand C#->2, D#->3, F#->2, G#->3, A#->4; left hand C#->3, D#->2,
\* F#->4, G#->3, A#->2 and A#0->4.  (A black key written with a flat name
\* has no rule; C16 is about those.)
C15_BlackKeyFixedFinger ==
    finger_pc = "done" /\ IsSharpBlackKey(finger_note) =>
        result_data.finger = BlackKeyRule(finger_hand, finger_note.l, finger_note.o)

\* a black key got its rule finger at an arm position where the offset
\* mapping gives another finger
C15_Witness ==
    /\ finger_pc = "done"
    /\ IsSharpBlackKey(finger_note)
    /\ finger_arm_pos # -1
    /\ result_data.finger
         # FingerAssignmentByOffset(finger_note, result_data.white_key_index,
                                    finger_arm_pos, finger_hand)[1]

\* C16: for a white key, and equally for a black key that has no fixed rule,
\* the finger is a function of the offset k = white_key_index - arm_position
\* only: right hand k = 0..4 -> finger k + 1 and k = 5 -> finger 5; left hand
\* k = 0..4 -> finger 5 - k.
C16_FingerByOffset ==
    LET k == result_data.white_key_index - result_data.arm_position
    IN  finger_pc = "done" /\ ~IsSharpBlackKey(finger_note) =>
            /\ finger_hand = "right" /\ 0 <= k /\ k <= 4
                   => result_data.finger = k + 1
            /\ finger_hand = "right" /\ k = 5 => result_data.finger = 5
            /\ finger_hand = "left" /\ 0 <= k /\ k <= 4
                   => result_data.finger = 5 - k

\* ------------------------------------- pre-processing of one note
\* the MIDI numbers whose note name has a one-digit octave, C0..B8
MidiNumbers == 12..119

\* the argument combinations of a call: save_separate_hand_fingerings passes
\* the low-note options for the left hand only and the octave option for the
\* right hand only
CallOptions(hand) ==
    IF hand = "left"
    THEN { Options(FALSE, f, t) : f \in BOOLEAN, t \in BOOLEAN }
    ELSE { Options(o, FALSE, FALSE) : o \in BOOLEAN }

PreprocessInit ==
    /\ midi_note \in MidiNumbers
    /\ call_hand \in {"left", "right"}
    /\ options \in CallOptions(call_hand)
    /\ preprocess_pc = "loop"
    /\ preprocessed = [kept |-> FALSE, note_name |-> Note("C", "", 4)]
    /\ PlannerIdle
    /\ CaptureStart
    /\ PerformIdle
    /\ FingerIdle
    /\ PipelineIdle
    /\ MidiIdle

\* one pass of the note loop on the note midi_to_notes named
PreprocessOneNote ==
    /\ preprocess_pc = "loop"
    /\ preprocessed' = PreprocessNote(midi_get_note_name(midi_note),
                           options.transpose_octave, options.filter_low_notes,
                           options.transpose_low_to_range)
    /\ preprocess_pc' = "done"
    /\ UNCHANGED <<midi_note, call_hand, options>>
    /\ UNCHANGED nonPreprocessVars

PreprocessNext == PreprocessOneNote

SpecPreprocess == PreprocessInit /\ [][PreprocessNext]_vars

\* the pitch class of a MIDI number, 0..11
PitchClass(semitone) == semitone % 12

\* C19: with low-note transposition enabled (and the low-note filter, which
\* must not be enabled with it, off), every left-hand note of the piano range
\* with semitone <= 47 is kept and replaced by the note of the same pitch
\* class whose semitone lies in 48..59, reached by raising 1 to 4 whole
\* octaves; notes with semitone > 47 are kept unchanged.
C19_LowNotesRaisedIntoRange ==
    LET before == midi_get_note_name(midi_note)
        after == preprocessed.note_name
        semitone == note_to_midi_number(after)
    IN  /\ preprocess_pc = "done"
        /\ call_hand = "left"
        /\ options.transpose_low_to_range
        /\ ~options.filter_low_notes
        /\ 21 <= midi_note /\ midi_note <= 108
        => /\ preprocessed.kept
           /\ IF midi_note <= 47
              THEN /\ 48 <= semitone /\ semitone <= 59
                   /\ PitchClass(semitone) = PitchClass(midi_note)
                   /\ after.l = before.l /\ after.a = before.a
                   /\ after.o - before.o \in 1..4
              ELSE after = before

\* A0, the lowest key, was raised (by three octaves)
C19_Witness ==
    /\ preprocess_pc = "done"
    /\ call_hand = "left"
    /\ options.transpose_low_to_range
    /\ ~options.filter_low_notes
    /\ preprocessed.kept
    /\ midi_note = 21
    /\ preprocessed.note_name = Note("A", "", 3)

\* C20: octave-up transposition keeps every right-hand note on the 88-key
\* piano: for every note with semitone in 21..108 the result has the same
\* pitch class, the octave raised by one and capped at 8, and a semitone
\* still within 21..108.
C20_OctaveUpStaysOnPiano ==
    LET before == midi_get_note_name(midi_note)
        after == preprocessed.note_name
        semitone == note_to_midi_number(after)
    IN  /\ preprocess_pc = "done"
        /\ call_hand = "right"
        /\ options.transpose_octave
        /\ 21 <= midi_note /\ midi_note <= 108
        => /\ after.l = before.l /\ after.a = before.a
           /\ after.o = (IF before.o + 1 > 8 THEN 8 ELSE before.o + 1)
           /\ 21 <= semitone /\ semitone <= 108

\* ----------------------------------------------------------- midi_to_notes
\* tempo used when the file has no set_tempo message, beats per minute
default_tempo == 120
\* mid.ticks_per_beat of the files of the model
ticks_per_beat == 2
\* seconds_per_beat / ticks_per_beat, in hundredths of a second
seconds_per_tick == (6000 \div default_tempo) \div ticks_per_beat

\* a mido message of a track; time is the delta to the previous message
MidiMsg(type, pitch, channel, velocity, time) ==
    [type |-> type, note |-> pitch, channel |-> channel,
     velocity |-> velocity, time |-> time]

\* active_notes[(note, channel)] is a list in arrival order; the model keeps
\* all pending note_on entries in one list in arrival order, so the head of
\* the list of a key is the first entry of the key: its index, 0 when the
\* list of the key is empty
RECURSIVE FirstPending(_, _, _, _)
FirstPending(pending, pitch, channel, k) ==
    IF k > Len(pending) THEN 0
    ELSE IF pending[k].note = pitch /\ pending[k].channel = channel THEN k
    ELSE FirstPending(pending, pitch, channel, k + 1)

\* list.pop(0) on the list of the key whose head is pending[k]
PopPending(pending, k) ==
    SubSeq(pending, 1, k - 1) \o SubSeq(pending, k + 1, Len(pending))

\* the body of `for msg in track`, on st = [current_time, pending, notes]
ReadMessage(st, msg, track_idx) ==
    LET current_time == st.current_time + msg.time
        k == FirstPending(st.pending, msg.note, msg.channel, 1)
    IN  IF msg.type = "note_on" /\ msg.velocity > 0
        THEN [current_time |-> current_time,
              pending |-> Append(st.pending,
                             [track |-> track_idx, channel |-> msg.channel,
                              note |-> msg.note, start_time |-> current_time,
                              velocity |-> msg.velocity]),
              notes |-> st.notes]
        ELSE IF msg.type = "note_off" \/ (msg.type = "note_on" /\ msg.velocity = 0)
        THEN IF k = 0
             THEN [st EXCEPT !.current_time = current_time]
             ELSE LET note_data == st.pending[k]
                      duration_ticks == current_time - note_data.start_time
                  IN  [current_time |-> current_time,
                       pending |-> PopPending(st.pending, k),
                       notes |-> IF duration_ticks > 0
                                 THEN Append(st.notes,
                                        [track |-> note_data.track,
                                         channel |-> note_data.channel,
                                         note |-> msg.note,
                                         note_name |-> midi_get_note_name(msg.note),
                                         start_time |-> note_data.start_time,
                                         end_time |-> current_time,
                                         duration |-> duration_ticks,
                                         velocity |-> note_data.velocity])
                                 ELSE st.notes]
        ELSE [st EXCEPT !.current_time = current_time]

\* `for msg in track` from message k on
RECURSIVE ReadTrack(_, _, _, _)
ReadTrack(track, track_idx, k, st) ==
    IF k > Len(track) THEN st
    ELSE ReadTrack(track, track_idx, k + 1, ReadMessage(st, track[k], track_idx))

\* `for track_idx, track in enumerate(mid.tracks)` from track i on:
\* current_time restarts at 0 in each track, active_notes and notes do not
RECURSIVE ReadTracks(_, _, _)
ReadTracks(tracks, i, st) ==
    IF i > Len(tracks) THEN st
    ELSE ReadTracks(tracks, i + 1,
             ReadTrack(tracks[i], i - 1, 1, [st EXCEPT !.current_time = 0]))

\* notes.sort(key=start_time): a stable sort
RECURSIVE SortByStartTime(_)
SortByStartTime(notes) ==
    IF notes = <<>> THEN <<>>
    ELSE LET sorted == SortByStartTime(SubSeq(notes, 1, Len(notes) - 1))
             n == notes[Len(notes)]
             k == Cardinality({ i \in 1..Len(sorted) :
                                  sorted[i].start_time <= n.start_time })
         IN  SubSeq(sorted, 1, k) \o <<n>> \o SubSeq(sorted, k + 1, Len(sorted))

\* the note list midi_to_notes returns for a file given as its tracks
midi_to_notes(tracks) ==
    SortByStartTime(ReadTracks(tracks, 1,
        [current_time |-> 0, pending |-> <<>>, notes |-> <<>>]).notes)

\* ----------------------------------------------- process_midi_to_fingering
\* the note loop from note k on: the notes appended to notes_list, each with
\* the note it came from
RECURSIVE NoteLoop(_, _, _, _, _)
NoteLoop(notes, k, transpose_octave, filter_low_notes, transpose_low_to_range) ==
    IF k > Len(notes) THEN <<>>
    ELSE LET pass == PreprocessNote(notes[k].note_name, transpose_octave,
                         filter_low_notes, transpose_low_to_range)
         IN  (IF pass.kept
              THEN << [note_name |-> pass.note_name, from |-> notes[k]] >>
              ELSE <<>>)
             \o NoteLoop(notes, k + 1, transpose_octave, filter_low_notes,
                         transpose_low_to_range)

\* process_midi_to_fingering up to its call of the planner: the arguments
\* of find_arm_positions_optimized(notes_list, move_penalty=5.0,
\* note_timing=note_timing, hand_type=hand_type), the channel each note of
\* notes_list came from, and the counts.  What the planner returns for these
\* arguments is find_arm_positions_optimized of the planner section; it goes
\* into the text of the files only, which the model does not keep.
process_midi_to_fingering(tracks, hand, transpose_octave, filter_low_notes, transpose_low_to_range) ==
    LET notes == midi_to_notes(tracks)
        appended == NoteLoop(notes, 1, transpose_octave, filter_low_notes,
                             transpose_low_to_range)
        names == [k \in 1..Len(appended) |-> appended[k].note_name]
        timing == [k \in 1..Len(appended) |->
                     [start_time |-> appended[k].from.start_time * seconds_per_tick,
                      duration |-> appended[k].from.duration * seconds_per_tick,
                      velocity |-> appended[k].from.velocity]]
    IN  [hand_type |-> hand,
         move_penalty |-> 5,
         notes_list |-> names,
         note_timing |-> timing,
         channels |-> [k \in 1..Len(appended) |-> appended[k].from.channel],
         original_count |-> Len(notes),
         filtered_count |-> Len(notes) - Len(appended)]

\* ------------------------------------------- merge_hand_fingering: main()
\* pitches of the files: D2 (below B2) and C4
MidiPitches == {38, 60}

\* channel 0 and the percussion channel
MidiChannels == {0, 9}

\* note_on with velocity 64, note_on with velocity 0 and note_off, at the
\* tick of the previous message or one tick later
TrackMessages ==
    { MidiMsg(t[1], n, c, t[2], d) :
        t \in { <<"note_on", 64>>, <<"note_on", 0>>, <<"note_off", 64>> },
        n \in MidiPitches, c \in MidiChannels, d \in {0, 1} }

\* one-track files of up to MaxTrackMsgs messages
MidiFiles ==
    { <<track>> :
        track \in UNION { [1..n -> TrackMessages] : n \in 0..MaxTrackMsgs } }

\* the files save_separate_hand_fingerings writes
Artifacts ==
    { "left_hand_fingering.txt", "left_hand_fingering.json",
      "right_hand_fingering.txt", "right_hand_fingering.json", "summary.txt" }

PipelineInit ==
    /\ args \in { Args(o, f, t) : o \in BOOLEAN, f \in BOOLEAN, t \in BOOLEAN }
    /\ midi_files_found \in [left : BOOLEAN, right : BOOLEAN]
    /\ main_pc = "check_options"
    /\ output_dir_made = FALSE
    /\ planner_calls = <<>>
    /\ artifacts_written = {}
    /\ exit_status = -1
    /\ PlannerIdle
    /\ CaptureStart
    /\ PerformIdle
    /\ FingerIdle
    /\ PreprocessIdle
    /\ MidiIdle

\* the check of the mutually exclusive options: main() prints the error and
\* returns, and the interpreter ends with status 0; otherwise the output
\* directory is made
MainChecksOptions ==
    /\ main_pc = "check_options"
    /\ IF args.filter_left_low_notes /\ args.transpose_left_low_to_range
       THEN /\ main_pc' = "returned"
            /\ exit_status' = 0
            /\ UNCHANGED output_dir_made
       ELSE /\ main_pc' = "find_files"
            /\ output_dir_made' = TRUE
            /\ UNCHANGED exit_status
    /\ UNCHANGED <<args, midi_files_found, planner_calls, artifacts_written>>
    /\ UNCHANGED nonPipelineVars

\* find_midi_files and the two `if not ..._midi_file` returns
MainFindsFiles ==
    /\ main_pc = "find_files"
    /\ IF midi_files_found.left /\ midi_files_found.right
       THEN main_pc' = "left" /\ UNCHANGED exit_status
       ELSE main_pc' = "returned" /\ exit_status' = 0
    /\ UNCHANGED <<args, midi_files_found, output_dir_made, planner_calls,
                   artifacts_written>>
    /\ UNCHANGED nonPipelineVars

\* save_separate_hand_fingerings calls process_midi_to_fingering on the file
\* of the left hand with the low-note options: midi_to_notes, the note loop
\* and the call of the planner
ProcessLeftHand ==
    /\ main_pc = "left"
    /\ \E tracks \in MidiFiles :
          planner_calls' = Append(planner_calls,
              process_midi_to_fingering(tracks, "left", FALSE,
                  args.filter_left_low_notes, args.transpose_left_low_to_range))
    /\ main_pc' = "right"
    /\ UNCHANGED <<args, midi_files_found, output_dir_made, artifacts_written,
                   exit_status>>
    /\ UNCHANGED nonPipelineVars

\* ... and on the file of the right hand, with the octave option
ProcessRightHand ==
    /\ main_pc = "right"
    /\ \E tracks \in MidiFiles :
          planner_calls' = Append(planner_calls,
              process_midi_to_fingering(tracks, "right",
                  args.transpose_right_octave, FALSE, FALSE))
    /\ main_pc' = "save"
    /\ UNCHANGED <<args, midi_files_found, output_dir_made, artifacts_written,
                   exit_status>>
    /\ UNCHANGED nonPipelineVars

\* mido cannot read the file of the hand: the exception is caught and
\* printed by main(), which then returns
MainCatchesException ==
    /\ main_pc \in {"left", "right"}
    /\ main_pc' = "returned"
    /\ exit_status' = 0
    /\ UNCHANGED <<args, midi_files_found, output_dir_made, planner_calls,
                   artifacts_written>>
    /\ UNCHANGED nonPipelineVars

\* the five files are written, main() prints the success message and returns
SaveHandFingerings ==
    /\ main_pc = "save"
    /\ artifacts_written' = Artifacts
    /\ main_pc' = "returned"
    /\ exit_status' = 0
    /\ UNCHANGED <<args, midi_files_found, output_dir_made, planner_calls>>
    /\ UNCHANGED nonPipelineVars

PipelineNext ==
    \/ MainChecksOptions
    \/ MainFindsFiles
    \/ ProcessLeftHand
    \/ ProcessRightHand
    \/ MainCatchesException
    \/ SaveHandFingerings

SpecPipeline == PipelineInit /\ [][PipelineNext]_vars

\* C17: when both the left-hand low-note filter and the left-hand low-note
\* transposition are requested, the request is rejected as a failure: no
\* planning is run, no artifact is written, and the process exits with a
\* non-zero status.
C17_BothLowNoteOptionsFail ==
    /\ args.filter_left_low_notes
    /\ args.transpose_left_low_to_range
    /\ main_pc = "returned"
    => /\ planner_calls = <<>>
       /\ artifacts_written = {}
       /\ ~output_dir_made
       /\ exit_status > 0

\* C18: no note of MIDI channel 9 reaches the fingering planner: the note
\* list of every find_arm_positions_optimized call made by
\* process_midi_to_fingering has no note that originated on channel 9.
C18_NoPercussionInPlannerInput ==
    \A c \in 1..Len(planner_calls) :
        \A k \in 1..Len(planner_calls[c].notes_list) :
            planner_calls[c].channels[k] # 9

\* C21: for every semitone s in 21..108, converting s to its note name with
\* get_note_name and back with note_to_midi_number returns s; so the number
\* the low-note filter reads back from the name and compares with B2 is s.
C21_NameRoundTrip ==
    /\ preprocess_pc = "done"
    /\ 21 <= midi_note /\ midi_note <= 108
    => /\ note_to_midi_number(midi_get_note_name(midi_note)) = midi_note
       /\ options.filter_low_notes => (preprocessed.kept <=> midi_note > 47)

\* A#0 went through the note loop unchanged, and its name reads back as 22
C21_Witness ==
    /\ preprocess_pc = "done"
    /\ midi_note = 22
    /\ preprocessed.kept
    /\ preprocessed.note_name = Note("A", "#", 0)
    /\ note_to_midi_number(preprocessed.note_name) = 22

\* the events the producer has handed to put_message so far, oldest first:
\* those that went onto the queue and the one a blocked put is holding
Produced ==
    IF producer_pc = "put" THEN Append(enqueued, pending_put) ELSE enqueued

EventsOfPitch(pitch) ==
    SelectSeq(Produced, LAMBDA ev : ev.midi_id = pitch)

IsRelease(msg) ==
    msg.type = "note_off" \/ (msg.type = "note_on" /\ msg.velocity = 0)

\* C27: in the sequence of events the capture producer enqueues, for each
\* pitch the first event is a note_on and two note_off events never follow
\* each other without a note_on of that pitch between them; a release
\* message for a pitch that is not in active_notes enqueues nothing and
\* leaves active_notes and the queue unchanged.
C27_ReleasesFollowPresses ==
    /\ [](\A pitch \in Pitches :
            LET evs == EventsOfPitch(pitch)
            IN  /\ evs # <<>> => evs[1].action = "note_on"
                /\ \A k \in 1..(Len(evs) - 1) :
                       ~(evs[k].action = "note_off"
                            /\ evs[k + 1].action = "note_off"))
    /\ [][\A msg \in MidiMessages :
             (ProcessMessage(msg) /\ IsRelease(msg)
                 /\ msg.note \notin active_notes)
             => UNCHANGED <<active_notes, message_queue, enqueued,
                            pending_put, producer_pc>>]_vars

\* a key was pressed and released, and a third message changed nothing
C27_Witness ==
    /\ msgs_received = 3
    /\ producer_pc = "recv"
    /\ Len(enqueued) = 2
    /\ enqueued[1].action = "note_on" /\ enqueued[1].midi_id = 60
    /\ enqueued[2].action = "note_off" /\ enqueued[2].midi_id = 60
    /\ active_notes = {}

\* C29: while the client stays connected, every event the capture producer
\* has put on the queue is yielded by record_stream exactly once or is still
\* waiting on the queue, in the order it was put: no get_message call left
\* behind by a 1 s read timeout takes an event from the queue and discards it.
C29_NoEventDiscarded ==
    client_connected => enqueued = yielded \o message_queue

\* C28: whenever perform_music has ended, it has returned its state (so the
\* graph goes on to save_history), also when the capture task was still
\* running and was cancelled in the finally block: perform_music never ends
\* with the capture task's CancelledError.
C28_PerformReturnsState ==
    perform_pc = "finished" => outcome = "returned"

\* ------------------------------------------------- midi_to_notes: steps
\* the files read here use one pitch, C4, on channel 0 and on channel 9
ParsePitches == {60}

\* note_on with velocity 64, note_on with velocity 0 and note_off, at the
\* tick of the previous message or one tick later
FileMessages ==
    { MidiMsg(t[1], n, c, t[2], d) :
        t \in { <<"note_on", 64>>, <<"note_on", 0>>, <<"note_off", 64>> },
        n \in ParsePitches, c \in MidiChannels, d \in {0, 1} }

\* the track lists of that many tracks with at most that many messages
RECURSIVE TrackLists(_, _)
TrackLists(tracks_left, msgs_left) ==
    IF tracks_left = 0 THEN { <<>> }
    ELSE UNION { { <<track>> \o rest :
                     track \in [1..n -> FileMessages],
                     rest \in TrackLists(tracks_left - 1, msgs_left - n) } :
                 n \in 0..msgs_left }

\* files of 1..MaxTracks tracks and at most MaxFileMsgs messages
ParsedFiles ==
    UNION { TrackLists(k, MaxFileMsgs) : k \in 1..MaxTracks }

MidiInit ==
    /\ mid \in ParsedFiles
    /\ midi_track = 0
    /\ midi_msg = 0
    /\ midi_state = [current_time |-> 0, pending |-> <<>>, notes |-> <<>>]
    /\ midi_pc = "read"
    /\ midi_result = <<>>
    /\ PlannerIdle
    /\ CaptureStart
    /\ PerformIdle
    /\ FingerIdle
    /\ PreprocessIdle
    /\ PipelineIdle

\* the message `for msg in track` hands out next
NextMessage == mid[midi_track + 1][midi_msg + 1]

\* one pass of the body of `for msg in track`
ReadNextMessage ==
    /\ midi_pc = "read"
    /\ midi_track < Len(mid)
    /\ midi_msg < Len(mid[midi_track + 1])
    /\ midi_state' = ReadMessage(midi_state, NextMessage, midi_track)
    /\ midi_msg' = midi_msg + 1
    /\ UNCHANGED <<mid, midi_track, midi_pc, midi_result>>
    /\ UNCHANGED nonMidiVars

\* the inner loop is through with a track: the outer loop goes to the next
\* track, where current_time starts at 0 again; active_notes is left as it is
TrackEnds ==
    /\ midi_pc = "read"
    /\ midi_track < Len(mid)
    /\ midi_msg = Len(mid[midi_track + 1])
    /\ midi_track' = midi_track + 1
    /\ midi_msg' = 0
    /\ midi_state' = IF midi_track + 1 < Len(mid)
                     THEN [midi_state EXCEPT !.current_time = 0]
                     ELSE midi_state
    /\ UNCHANGED <<mid, midi_pc, midi_result>>
    /\ UNCHANGED nonMidiVars

\* after the last track: notes.sort(key=start_time) and the return
SortAndReturn ==
    /\ midi_pc = "read"
    /\ midi_track = Len(mid)
    /\ midi_result' = SortByStartTime(midi_state.notes)
    /\ midi_pc' = "done"
    /\ UNCHANGED <<mid, midi_track, midi_msg, midi_state>>
    /\ UNCHANGED nonMidiVars

MidiNext ==
    \/ ReadNextMessage
    \/ TrackEnds
    \/ SortAndReturn

SpecMidi == MidiInit /\ [][MidiNext]_vars

\* C25: a note_on still pending when its track ends produces no Note:
\* pending note_on entries are kept per track, so every Note is appended
\* while the track of its note_on is being read; a note_off (or velocity-0
\* note_on) read in one track never closes a note_on opened in another track.
C25_NotesCloseInTheirTrack ==
    [][Len(midi_state'.notes) > Len(midi_state.notes)
         => midi_state'.notes[Len(midi_state'.notes)].track = midi_track]_vars

\* the pending note_on entries a message could close: same pitch and channel
PendingOfKey(pending, msg) ==
    { k \in 1..Len(pending) :
        pending[k].note = msg.note /\ pending[k].channel = msg.channel }

\* the earliest of them: the smallest start tick, the first read among equals
EarliestPending(pending, msg) ==
    CHOOSE k \in PendingOfKey(pending, msg) :
        \A j \in PendingOfKey(pending, msg) :
            \/ pending[k].start_time < pending[j].start_time
            \/ (pending[k].start_time = pending[j].start_time /\ k <= j)

\* C26: in midi_to_notes, each note_off (or note_on with velocity 0)
\* consumes exactly the earliest still-pending note_on of the same
\* (pitch, channel); the Note it emits has as duration the tick of the
\* note_off minus the tick of that note_on; a note_off with no pending
\* note_on emits nothing; no Note with duration <= 0 is ever emitted.
C26_ReleaseClosesEarliestPending ==
    /\ [](\A k \in 1..Len(midi_state.notes) : midi_state.notes[k].duration > 0)
    /\ [][(ReadNextMessage /\ IsRelease(NextMessage))
            => LET pending == midi_state.pending
                   tick == midi_state.current_time + NextMessage.time
               IN  IF PendingOfKey(pending, NextMessage) = {}
                   THEN /\ midi_state'.pending = pending
                        /\ midi_state'.notes = midi_state.notes
                   ELSE LET k == EarliestPending(pending, NextMessage)
                            duration_ticks == tick - pending[k].start_time
                        IN  /\ midi_state'.pending = PopPending(pending, k)
                            /\ IF duration_ticks > 0
                               THEN /\ Len(midi_state'.notes)
                                         = Len(midi_state.notes) + 1
                                    /\ LET note == midi_state'.notes[Len(midi_state'.notes)]
                                       IN  /\ note.start_time = pending[k].start_time
                                           /\ note.end_time = tick
                                           /\ note.duration = duration_ticks
                               ELSE midi_state'.notes = midi_state.notes]_vars

====
